---- MODULE Spec2Model ----
(***************************************************************************)
(* PBPD predictor: the two Streamlit scripts src/app.py (interactive form, *)
(* PDF report, batch CSV) and src/project/app.py (interactive form only).  *)
(*                                                                         *)
(* Text is a sequence of one-character strings, so that str.lower(),       *)
(* str.upper() and the `in` substring test are computed, not assumed.      *)
(* A float is a record [n, d]: the rational n/d in lowest terms with       *)
(* d > 0, or a non-finite value with d = 0 (1/0 = inf, -1/0 = -inf,        *)
(* 0/0 = NaN).  Widget and CSV numbers are given in tenths.                *)
(***************************************************************************)
EXTENDS Integers, Sequences, FiniteSets, TLC

\* Longest Material text enumerated for the batch classification.
MaxLen == 4
\* Largest number of data rows in an uploaded CSV.
MaxRows == 2

----------------------------------------------------------------------------
\* Text

UpperChars ==
    <<"A","B","C","D","E","F","G","H","I","J","K","L","M",
      "N","O","P","Q","R","S","T","U","V","W","X","Y","Z">>

LowerChars ==
    <<"a","b","c","d","e","f","g","h","i","j","k","l","m",
      "n","o","p","q","r","s","t","u","v","w","x","y","z">>

LowerChar(c) ==
    IF \E k \in DOMAIN UpperChars : UpperChars[k] = c
    THEN LowerChars[CHOOSE k \in DOMAIN UpperChars : UpperChars[k] = c]
    ELSE c

UpperChar(c) ==
    IF \E k \in DOMAIN LowerChars : LowerChars[k] = c
    THEN UpperChars[CHOOSE k \in DOMAIN LowerChars : LowerChars[k] = c]
    ELSE c

\* str.lower()
Lower(s) == [k \in 1..Len(s) |-> LowerChar(s[k])]

\* str.upper()
Upper(s) == [k \in 1..Len(s) |-> UpperChar(s[k])]

\* sub in s
Contains(s, sub) ==
    \E k \in 1..(Len(s) - Len(sub) + 1) : SubSeq(s, k, k + Len(sub) - 1) = sub

TI == <<"t","i">>
SS == <<"s","s">>
AL == <<"a","l">>
T316 == <<"3","1","6">>
NoText == <<>>

\* The three model keys of the closed routing set.
Groups == {TI, SS, AL}

\* f"model_{key}.pkl"
ModelFile(key) == <<"model_">> \o key \o <<".pkl">>

----------------------------------------------------------------------------
\* Floats

Abs(x) == IF x < 0 THEN -x ELSE x

RECURSIVE Gcd(_, _)
Gcd(a, b) == IF b = 0 THEN a ELSE Gcd(b, a % b)

\* The float n/d, d # 0.
Frac(n, d) ==
    LET g == Gcd(Abs(n), Abs(d))
        s == IF d < 0 THEN -1 ELSE 1
    IN  [n |-> (s * n) \div g, d |-> (s * d) \div g]

\* A number entered in tenths.
Tenths(v) == Frac(v, 10)

Inf == [n |-> 1, d |-> 0]
NegInf == [n |-> -1, d |-> 0]
NaN == [n |-> 0, d |-> 0]

IsFinite(x) == x.d # 0
IsZero(x) == x.d # 0 /\ x.n = 0

FSub(a, b) == Frac(a.n * b.d - b.n * a.d, a.d * b.d)

\* a / b for finite a and b # 0.
FQuot(a, b) == Frac(a.n * b.d, a.d * b.n)

\* a < b, a > b for finite a, b.
FLt(a, b) == a.n * b.d < b.n * a.d
FGt(a, b) == FLt(b, a)

\* numpy float64 division (pandas Series / Series): never raises.
NpDiv(a, b) ==
    IF ~IsZero(b) THEN FQuot(a, b)
    ELSE IF a.n > 0 THEN Inf
    ELSE IF a.n < 0 THEN NegInf
    ELSE NaN

----------------------------------------------------------------------------
\* State

VARIABLES
    script,           \* which script runs: "app" (src/app.py) or "project"
    pc,               \* position of the script run
    files,            \* model files present on disk
    material_choice, bulk_density,
    d10, d50, d90, tap_density, hr, d23, d34, layer_thickness,
    material_group, span, r23, r34, warnings,
    page,             \* what the run has rendered: st.warning/error/success/...
    loads,            \* joblib.load calls so far
    calls,            \* model.predict calls so far
    raised,           \* the uncaught exception that ended the run, or ""
    df_csv,           \* the uploaded CSV: [columns, rows]
    df,               \* the working copy with the derived columns
    predictions,      \* the batch loop's list
    row_i,            \* index of the next row of df.iterrows()
    mat, model_used   \* the batch loop's locals

widgets == <<material_choice, bulk_density, d10, d50, d90, tap_density, hr,
             d23, d34, layer_thickness>>
derived == <<material_group, span, r23, r34, warnings>>
batch == <<df_csv, df, predictions, row_i, mat, model_used>>
vars == <<script, pc, files, widgets, derived, page, loads, calls, raised, batch>>

----------------------------------------------------------------------------
\* Sidebar: material resolution

AUTO == <<"A","u","t","o"," ","(","v","i","a"," ","d","e","n","s","i","t","y",")">>

material_options == <<AUTO, <<"T","i">>, <<"S","S">>, <<"A","l">>>>

\* ResolveMaterial with the lower boundary closed the wrong way (<= 3.5).
ResolveMaterialClosed(choice, density) ==
    IF choice = AUTO
    THEN IF ~FGt(Tenths(density), Frac(35, 10)) THEN AL
         ELSE IF FLt(Tenths(density), Frac(6, 1)) THEN TI
         ELSE SS
    ELSE Lower(Lower(choice))

\* ResolveMaterial without the lower-casing of an explicit choice.
ResolveMaterialAsTyped(choice, density) ==
    IF choice = AUTO
    THEN IF FLt(Tenths(density), Frac(35, 10)) THEN AL
         ELSE IF FLt(Tenths(density), Frac(6, 1)) THEN TI
         ELSE SS
    ELSE choice

\* material_group after the if/else on material_choice; bulk density in tenths.
ResolveMaterial(choice, density) ==
    IF choice = AUTO
    THEN IF FLt(Tenths(density), Frac(35, 10)) THEN AL
         ELSE IF ~FLt(Tenths(density), Frac(35, 10)) /\ FLt(Tenths(density), Frac(6, 1))
              THEN TI
              ELSE SS
    ELSE Lower(Lower(choice))

\* The same block of src/project/app.py (a single .lower()).
ProjectResolveMaterial(choice, density) ==
    IF choice = AUTO
    THEN IF FLt(Tenths(density), Frac(35, 10)) THEN AL
         ELSE IF ~FLt(Tenths(density), Frac(35, 10)) /\ FLt(Tenths(density), Frac(6, 1))
              THEN TI
              ELSE SS
    ELSE Lower(choice)

\* Bulk densities tried (tenths of g/cm3); the widget enforces min_value=0.0.
BulkDensities == {0, 34, 35, 59, 60, 61}

\* Lines 19-33 (project: 16-31).  The selectbox returns one of Choices, the
\* number input one of Densities.
Sidebar(Choices, Densities) ==
    /\ pc = "sidebar"
    /\ \E choice \in Choices, density \in Densities :
        /\ material_choice' = choice
        /\ bulk_density' = density
        /\ material_group' = IF script = "app"
                             THEN ResolveMaterial(choice, density)
                             ELSE ProjectResolveMaterial(choice, density)
    /\ pc' = "properties"
    /\ UNCHANGED <<script, files, d10, d50, d90, tap_density, hr, d23, d34,
                   layer_thickness, span, r23, r34, warnings, page, loads,
                   calls, raised, batch>>

----------------------------------------------------------------------------
\* Powder properties and derived metrics

\* Values tried for the widgets (tenths).  layer_thickness has min_value=0.1
\* and hr has min_value=1.0; the other number inputs are unconstrained.
D50s == {0, 100, 200, 350, 500, 1000}
D23s == {20, 30, 600, 720, 730}
D34s == {20, 30, 900, 910}
HRs == {10, 14, 15}
SpanInputs == {4, 8, 12, 20, 25}

\* span = (d90 - d10) / d50 raises ZeroDivisionError on a Python float 0.0.
SpanRaises(v50) == IsZero(Tenths(v50))

SpanOf(v10, v50, v90) == FQuot(FSub(Tenths(v90), Tenths(v10)), Tenths(v50))

RatioOf(v, thickness) == FQuot(Tenths(v), Tenths(thickness))

\* Lines 35-52 (project: 33-51).
PowderProperties(S50, S23, S34, SHR, SSpan) ==
    /\ pc = "properties"
    /\ \E v23 \in S23, v34 \in S34, vhr \in SHR :
        /\ d23' = v23
        /\ d34' = v34
        /\ hr' = vhr
        /\ IF script = "app"
           THEN \E v50 \in S50 :
                 /\ d50' = v50
                 /\ IF SpanRaises(v50)
                    THEN /\ raised' = "ZeroDivisionError"
                         /\ pc' = "crashed"
                         /\ UNCHANGED <<span, r23, r34>>
                    ELSE /\ span' = SpanOf(d10, v50, d90)
                         /\ r23' = RatioOf(v23, layer_thickness)
                         /\ r34' = RatioOf(v34, layer_thickness)
                         /\ pc' = "check"
                         /\ UNCHANGED raised
           ELSE \E vspan \in SSpan :
                 /\ span' = Tenths(vspan)
                 /\ r23' = RatioOf(v23, layer_thickness)
                 /\ r34' = RatioOf(v34, layer_thickness)
                 /\ pc' = "check"
                 /\ UNCHANGED <<d50, raised>>
    /\ UNCHANGED <<script, files, material_choice, bulk_density, d10, d90,
                   tap_density, layer_thickness, material_group, warnings,
                   page, loads, calls, batch>>

----------------------------------------------------------------------------
\* Input check

SpanWarning == "Span is outside typical range (0.8-2.0)."
R23Warning == "R23 is outside expected range."
R34Warning == "R34 is outside expected range."
BridgingWarning == "D[2,3] is greater than layer thickness - may cause bridging."
FlowWarning == "HR is high - flowability may be poor."

WarnIf(cond, msg) == IF cond THEN <<msg>> ELSE <<>>

\* The warnings list of src/app.py, in append order.
Warnings(vspan, vr23, vr34, v23, thickness, vhr) ==
       WarnIf(FLt(vspan, Frac(8, 10)) \/ FGt(vspan, Frac(2, 1)), SpanWarning)
    \o WarnIf(FLt(vr23, Frac(5, 100)) \/ FGt(vr23, Frac(12, 10)), R23Warning)
    \o WarnIf(FLt(vr34, Frac(5, 100)) \/ FGt(vr34, Frac(15, 10)), R34Warning)
    \o WarnIf(FGt(Tenths(v23), Tenths(thickness)), BridgingWarning)
    \o WarnIf(FGt(Tenths(vhr), Frac(14, 10)), FlowWarning)

\* The warnings list of src/project/app.py.
ProjectWarnings(vspan, vr23, vr34) ==
       WarnIf(FLt(vspan, Frac(8, 10)) \/ FGt(vspan, Frac(2, 1)), SpanWarning)
    \o WarnIf(FLt(vr23, Frac(5, 100)) \/ FGt(vr23, Frac(12, 10)), R23Warning)
    \o WarnIf(FLt(vr34, Frac(5, 100)) \/ FGt(vr34, Frac(15, 10)), R34Warning)

Widget(kind, text, arg) == [kind |-> kind, text |-> text, arg |-> arg]

\* Lines 54-69 (project: 53-64).
InputCheck ==
    /\ pc = "check"
    /\ warnings' = IF script = "app"
                   THEN Warnings(span, r23, r34, d23, layer_thickness, hr)
                   ELSE ProjectWarnings(span, r23, r34)
    /\ page' = page \o [k \in 1..Len(warnings') |->
                          Widget("warning", warnings'[k], NoText)]
    /\ pc' = "button"
    /\ UNCHANGED <<script, files, widgets, material_group, span, r23, r34,
                   loads, calls, raised, batch>>

----------------------------------------------------------------------------
\* Predict PBPD

\* The features list of the if/elif chain; <<>> when no branch matches.
Features(group, vr23, vr34, vspan, tap, vhr) ==
    IF group = TI THEN <<vr23, vspan, tap>>
    ELSE IF group = SS THEN <<vr23, vr34, vspan, tap, vhr>>
    ELSE IF group = AL THEN <<vr34, vspan, tap>>
    ELSE <<>>

\* Whether the chain reaches its else branch (st.error, st.stop).
Unrouted(group) == group # TI /\ group # SS /\ group # AL

\* The key interpolated into the file name: src/app.py lower-cases it,
\* src/project/app.py does not.
LoadKey(group) == IF script = "app" THEN Lower(group) ELSE group

\* model.predict(x)[0] of the model unpickled from file: an opaque scalar.
Predict(file, x) == [model |-> file, x |-> x]

\* confidence = {...}.get(material_group, "Unknown")
Confidence(group) ==
    IF group = TI THEN "High"
    ELSE IF group = SS THEN "Moderate"
    ELSE IF group = AL THEN "Low"
    ELSE "Unknown"

\* What the PDF prints.
Report(prediction) ==
    [group |-> Upper(material_group), confidence |-> Confidence(material_group),
     d10 |-> d10, d50 |-> d50, d90 |-> d90, span |-> span, d23 |-> d23,
     d34 |-> d34, r23 |-> r23, r34 |-> r34, tap_density |-> tap_density,
     hr |-> hr, layer_thickness |-> layer_thickness, prediction |-> prediction]

NotFoundText == "Model for '{}' not found. Make sure the model file exists."
UnroutedText == "Material model not found."

\* Where the run goes after the button block: src/app.py has the batch
\* section below it, src/project/app.py ends.
AfterButton == IF script = "app" THEN "upload" ELSE "end"

\* Lines 71-129 (project: 66-85), st.button returned True.
PredictPBPD ==
    /\ pc = "button"
    /\ LET file == ModelFile(LoadKey(material_group))
           x == Features(material_group, r23, r34, span, Tenths(tap_density),
                         Tenths(hr))
       IN  /\ loads' = Append(loads, [flow |-> "interactive", row |-> 0, file |-> file])
           /\ IF file \notin files
              THEN \* except FileNotFoundError
                   /\ page' = Append(page, Widget("error", NotFoundText,
                                                  Upper(material_group)))
                   /\ pc' = AfterButton
                   /\ UNCHANGED calls
              ELSE IF Unrouted(material_group)
              THEN /\ page' = Append(page, Widget("error", UnroutedText, NoText))
                   /\ pc' = "stopped"
                   /\ UNCHANGED calls
              ELSE /\ calls' = Append(calls, [flow |-> "interactive", row |-> 0,
                                              file |-> file, x |-> x])
                   /\ page' = page
                        \o <<Widget("success", "Predicted PBPD", Predict(file, x))>>
                        \o IF script = "app"
                           THEN <<Widget("download_button", "Download PDF Report",
                                         Report(Predict(file, x)))>>
                           ELSE <<>>
                   /\ pc' = AfterButton
    /\ UNCHANGED <<script, files, widgets, derived, raised, batch>>

\* st.button returned False.
NoPredict ==
    /\ pc = "button"
    /\ pc' = AfterButton
    /\ UNCHANGED <<script, files, widgets, derived, page, loads, calls, raised, batch>>

----------------------------------------------------------------------------
\* Batch prediction via CSV (src/app.py only)

\* Column names, with the micro sign and the superscript three in ASCII.
RequiredCols ==
    {"D10_um", "D50_um", "D90_um", "D[2,3]", "D[3,4]", "Tap_Density_g/cm3",
     "HR", "Effective_Layer_Thickness_um", "Material"}

\* HasRequiredCols with 'Material' left out of required_cols.
HasNumericCols(columns) ==
    \A col \in RequiredCols \ {"Material"} : col \in columns

\* all(col in df_csv.columns for col in required_cols)
HasRequiredCols(columns) == \A col \in RequiredCols : col \in columns

NoFrame == [columns |-> {}, rows |-> <<>>]

\* df = df_csv.copy() and the three derived columns, computed on whole
\* columns by numpy division.
DerivedColumns(csv) ==
    [columns |-> csv.columns \cup {"Span", "R23", "R34"},
     rows |-> [k \in 1..Len(csv.rows) |->
        LET r == csv.rows[k]
            thickness == Tenths(r["Effective_Layer_Thickness_um"])
        IN  [c \in csv.columns \cup {"Span", "R23", "R34"} |->
               IF c = "Span"
               THEN NpDiv(FSub(Tenths(r["D90_um"]), Tenths(r["D10_um"])),
                          Tenths(r["D50_um"]))
               ELSE IF c = "R23" THEN NpDiv(Tenths(r["D[2,3]"]), thickness)
               ELSE IF c = "R34" THEN NpDiv(Tenths(r["D[3,4]"]), thickness)
               ELSE r[c]]]]

\* Classify with the 'al' test moved to the front of the chain.
ClassifyAlFirst(text) ==
    IF Contains(text, AL) THEN AL
    ELSE IF Contains(text, TI) THEN TI
    ELSE IF Contains(text, SS) \/ Contains(text, T316) THEN SS
    ELSE NoText

\* model_used after the if/elif chain on mat; NoText is None.
Classify(text) ==
    IF Contains(text, TI) THEN TI
    ELSE IF Contains(text, SS) \/ Contains(text, T316) THEN SS
    ELSE IF Contains(text, AL) THEN AL
    ELSE NoText

\* BatchFeatures with R34 and R23 in each other's place for 'ss'.
BatchFeaturesSwapped(used, row) ==
    IF used = TI
    THEN <<row["R23"], row["Span"], Tenths(row["Tap_Density_g/cm3"])>>
    ELSE IF used = SS
    THEN <<row["R34"], row["R23"], row["Span"],
           Tenths(row["Tap_Density_g/cm3"]), Tenths(row["HR"])>>
    ELSE IF used = AL
    THEN <<row["R34"], row["Span"], Tenths(row["Tap_Density_g/cm3"])>>
    ELSE <<>>

\* features after the same chain.
BatchFeatures(used, row) ==
    IF used = TI
    THEN <<row["R23"], row["Span"], Tenths(row["Tap_Density_g/cm3"])>>
    ELSE IF used = SS
    THEN <<row["R23"], row["R34"], row["Span"],
           Tenths(row["Tap_Density_g/cm3"]), Tenths(row["HR"])>>
    ELSE IF used = AL
    THEN <<row["R34"], row["Span"], Tenths(row["Tap_Density_g/cm3"])>>
    ELSE <<>>

AllFinite(x) == \A k \in DOMAIN x : IsFinite(x[k])

\* What the opaque model does with x: it returns a scalar for finite input;
\* for inf or NaN input an estimator may return or raise ValueError.
PredictOutcomes(x) == IF AllFinite(x) THEN {"returns"} ELSE {"returns", "raises"}

\* Lines 134-152: the file uploader returned one of CSVs.
UploadCSV(CSVs) ==
    /\ pc = "upload"
    /\ \E csv \in CSVs :
        /\ df_csv' = csv
        /\ IF ~HasRequiredCols(csv.columns)
           THEN /\ page' = Append(page, Widget("error",
                                  "Missing required columns in CSV.", NoText))
                /\ pc' = "end"
                /\ UNCHANGED <<df, predictions, row_i>>
           ELSE /\ df' = DerivedColumns(csv)
                /\ predictions' = <<>>
                /\ row_i' = 1
                /\ pc' = IF Len(csv.rows) = 0 THEN "assign" ELSE "loop"
                /\ UNCHANGED page
    /\ UNCHANGED <<script, files, widgets, derived, loads, calls, raised, mat,
                   model_used>>

\* The file uploader returned None.
NoUpload ==
    /\ pc = "upload"
    /\ pc' = "end"
    /\ UNCHANGED <<script, files, widgets, derived, page, loads, calls, raised, batch>>

\* Lines 153-175: one iteration of for _, row in df.iterrows().
BatchRow ==
    /\ pc = "loop"
    /\ row_i <= Len(df.rows)
    /\ LET row == df.rows[row_i]
           text == Lower(row["Material"])
           used == Classify(text)
           x == BatchFeatures(used, row)
           file == ModelFile(used)
           call == [flow |-> "batch", row |-> row_i, file |-> file, x |-> x]
           next == IF row_i = Len(df.rows) THEN "assign" ELSE "loop"
       IN  /\ mat' = text
           /\ model_used' = used
           /\ IF used = NoText
              THEN \* predictions.append(np.nan); continue
                   /\ predictions' = Append(predictions, NaN)
                   /\ row_i' = row_i + 1
                   /\ pc' = next
                   /\ UNCHANGED <<loads, calls, raised>>
              ELSE /\ loads' = Append(loads, [flow |-> "batch", row |-> row_i,
                                              file |-> file])
                   /\ IF file \notin files
                      THEN \* joblib.load raises outside any try
                           /\ raised' = "FileNotFoundError"
                           /\ pc' = "crashed"
                           /\ UNCHANGED <<calls, predictions, row_i>>
                      ELSE \E outcome \in PredictOutcomes(x) :
                            IF outcome = "raises"
                            THEN /\ calls' = Append(calls, call)
                                 /\ raised' = "ValueError"
                                 /\ pc' = "crashed"
                                 /\ UNCHANGED <<predictions, row_i>>
                            ELSE \* predict and append inside the if, then
                                 \* predict and append again after it
                                 /\ calls' = calls \o <<call, call>>
                                 /\ predictions' = predictions
                                       \o <<Predict(file, x), Predict(file, x)>>
                                 /\ row_i' = row_i + 1
                                 /\ pc' = next
                                 /\ UNCHANGED raised
    /\ UNCHANGED <<script, files, widgets, derived, page, df_csv, df>>

\* Lines 177-187: df['Predicted_PBPD_%'] = predictions raises ValueError when
\* the list's length is not the number of rows.
BatchAssign ==
    /\ pc = "assign"
    /\ IF Len(predictions) # Len(df.rows)
       THEN /\ raised' = "ValueError"
            /\ pc' = "crashed"
            /\ UNCHANGED <<df, page>>
       ELSE /\ df' = [columns |-> df.columns \cup {"Predicted_PBPD_%"},
                      rows |-> [k \in 1..Len(df.rows) |->
                         [c \in df.columns \cup {"Predicted_PBPD_%"} |->
                            IF c = "Predicted_PBPD_%" THEN predictions[k]
                            ELSE df.rows[k][c]]]]
            /\ page' = page \o
                 <<Widget("success", "Batch prediction complete.", NoText),
                   Widget("dataframe", "Material, Predicted_PBPD_%", df'),
                   Widget("download_button", "Download Results as CSV", df')>>
            /\ pc' = "end"
            /\ UNCHANGED raised
    /\ UNCHANGED <<script, files, widgets, derived, loads, calls, df_csv,
                   predictions, row_i, mat, model_used>>

----------------------------------------------------------------------------
\* Runs

\* A Python name not yet bound.
Unbound == [n |-> 0, d |-> -1]

AllFiles == {ModelFile(g) : g \in Groups}

\* The start of a script run: every widget at its value= default, nothing
\* rendered, nothing uploaded.
InitWith(Scripts, FileSets) ==
    /\ script \in Scripts
    /\ files \in FileSets
    /\ pc = "sidebar"
    /\ material_choice = AUTO
    /\ bulk_density = 45
    /\ d10 = 150 /\ d50 = 350 /\ d90 = 550 /\ tap_density = 50
    /\ hr = 12 /\ d23 = 300 /\ d34 = 420 /\ layer_thickness = 600
    /\ material_group = NoText
    /\ span = Unbound /\ r23 = Unbound /\ r34 = Unbound
    /\ warnings = <<>>
    /\ page = <<>>
    /\ loads = <<>>
    /\ calls = <<>>
    /\ raised = ""
    /\ df_csv = NoFrame
    /\ df = NoFrame
    /\ predictions = <<>>
    /\ row_i = 0
    /\ mat = NoText
    /\ model_used = NoText

Options == {material_options[k] : k \in DOMAIN material_options}

\* The interactive form of both scripts, over the widget values above.
FormFileSets == {AllFiles, {}, AllFiles \ {ModelFile(TI)}, {ModelFile(TI)}}

InitForm == InitWith({"app", "project"}, FormFileSets)

NextForm ==
    \/ Sidebar(Options, BulkDensities)
    \/ PowderProperties(D50s, D23s, D34s, HRs, SpanInputs)
    \/ InputCheck
    \/ PredictPBPD
    \/ NoPredict
    \/ NoUpload

SpecForm == InitForm /\ [][NextForm]_vars

\* Rows of an uploaded CSV.
DefaultSample ==
    "D10_um" :> 150 @@ "D50_um" :> 350 @@ "D90_um" :> 550 @@ "D[2,3]" :> 300
    @@ "D[3,4]" :> 420 @@ "Tap_Density_g/cm3" :> 50 @@ "HR" :> 12
    @@ "Effective_Layer_Thickness_um" :> 600

ZeroD50Sample == ("D50_um" :> 0) @@ DefaultSample

ZeroLayerSample ==
    ("Effective_Layer_Thickness_um" :> 0) @@ ("D[3,4]" :> 0) @@ DefaultSample

Ti6Al4V == <<"T","i","-","6","A","l","-","4","V">>
SS316L == <<"S","S","3","1","6","L">>
AlSi10Mg == <<"A","l","S","i","1","0","M","g">>
CuCrZr == <<"C","u","C","r","Z","r">>
UnknownAlloy == <<"u","n","k","n","o","w","n","_","a","l","l","o","y">>

MakeRow(material, sample, columns) ==
    [c \in columns |->
        IF c = "Material" THEN material
        ELSE IF c \in DOMAIN sample THEN sample[c]
        ELSE NoText]

RECURSIVE SeqsUpTo(_, _)
SeqsUpTo(S, n) ==
    IF n = 0 THEN {<<>>}
    ELSE LET shorter == SeqsUpTo(S, n - 1)
         IN  shorter \cup {Append(q, e) : q \in shorter, e \in S}

ColumnSets ==
    {RequiredCols, RequiredCols \cup {"Notes"}, RequiredCols \ {"Material"},
     RequiredCols \ {"D50_um"}}

BatchCSVs ==
    UNION {
      {[columns |-> cols, rows |-> rows] :
         rows \in SeqsUpTo({MakeRow(m, smp, cols) :
                              m \in {Ti6Al4V, SS316L, AlSi10Mg, CuCrZr},
                              smp \in {DefaultSample, ZeroD50Sample, ZeroLayerSample}},
                           MaxRows)} :
      cols \in ColumnSets}

BatchFileSets == {AllFiles, {}, AllFiles \ {ModelFile(TI)}}

InitBatch == InitWith({"app"}, BatchFileSets)

\* A whole run of src/app.py: the form left at its defaults but for the
\* material choice, then an upload.
NextBatch ==
    \/ Sidebar({AUTO, <<"S","S">>, <<"A","l">>}, {45})
    \/ PowderProperties({350}, {300}, {420}, {12}, {12})
    \/ InputCheck
    \/ PredictPBPD
    \/ NoPredict
    \/ UploadCSV(BatchCSVs)
    \/ NoUpload
    \/ BatchRow
    \/ BatchAssign

SpecBatch == InitBatch /\ [][NextBatch]_vars

\* One-row CSVs whose Material runs over every text up to MaxLen.
Alphabet == {"t", "i", "s", "a", "l", "3", "1", "6", "T", "x"}

TextCSVs ==
    {[columns |-> RequiredCols,
      rows |-> <<MakeRow(m, DefaultSample, RequiredCols)>>] :
       m \in SeqsUpTo(Alphabet, MaxLen) \cup {Ti6Al4V, SS316L, UnknownAlloy}}

InitClassify == InitWith({"app"}, {AllFiles})

NextClassify ==
    \/ Sidebar({AUTO}, {45})
    \/ PowderProperties({350}, {300}, {420}, {12}, {12})
    \/ InputCheck
    \/ NoPredict
    \/ UploadCSV(TextCSVs)
    \/ BatchRow
    \/ BatchAssign

SpecClassify == InitClassify /\ [][NextClassify]_vars

----------------------------------------------------------------------------
\* Properties

Reported(kind, text) == \E k \in DOMAIN page : page[k].kind = kind /\ page[k].text = text

FlowCalls(flow) == {k \in DOMAIN calls : calls[k].flow = flow}
FlowLoads(flow) == {k \in DOMAIN loads : loads[k].flow = flow}

\* The vector section 4.3 tabulates for group g.
TableVector(g, vr23, vr34, vspan, tap, vhr) ==
    CASE g = TI -> <<vr23, vspan, tap>>
      [] g = SS -> <<vr23, vr34, vspan, tap, vhr>>
      [] g = AL -> <<vr34, vspan, tap>>

\* The raw sample of a CSV row equals the form's widget values.
SameSample(row) ==
    /\ row["D10_um"] = d10 /\ row["D50_um"] = d50 /\ row["D90_um"] = d90
    /\ row["D[2,3]"] = d23 /\ row["D[3,4]"] = d34
    /\ row["Tap_Density_g/cm3"] = tap_density /\ row["HR"] = hr
    /\ row["Effective_Layer_Thickness_um"] = layer_thickness

\* C1: every vector handed to model.predict, by the form and by the batch
\* loop, is the tabulated vector of the group whose model is called (Titanium
\* [R23, Span, TapDensity], StainlessSteel [R23, R34, Span, TapDensity, HR],
\* Aluminum [R34, Span, TapDensity]), where Span, R23 and R34 are the quotients
\* of the raw sample whenever the denominators are not zero; and the two flows
\* hand over the same vector for the same group and sample.
C1_FeatureVector ==
    /\ \A k \in FlowCalls("interactive") :
        \E g \in Groups :
            /\ calls[k].file = ModelFile(g)
            /\ g = material_group
            /\ calls[k].x = TableVector(g, Frac(d23, layer_thickness),
                                        Frac(d34, layer_thickness),
                                        Frac(d90 - d10, d50),
                                        Frac(tap_density, 10), Frac(hr, 10))
    /\ \A k \in FlowCalls("batch") :
        LET row == df.rows[calls[k].row]
            thickness == row["Effective_Layer_Thickness_um"]
        IN  \E g \in Groups :
            /\ calls[k].file = ModelFile(g)
            /\ calls[k].x = TableVector(g, row["R23"], row["R34"], row["Span"],
                                        Frac(row["Tap_Density_g/cm3"], 10),
                                        Frac(row["HR"], 10))
            /\ thickness # 0 /\ row["D50_um"] # 0 =>
                 calls[k].x = TableVector(g, Frac(row["D[2,3]"], thickness),
                                          Frac(row["D[3,4]"], thickness),
                                          Frac(row["D90_um"] - row["D10_um"],
                                               row["D50_um"]),
                                          Frac(row["Tap_Density_g/cm3"], 10),
                                          Frac(row["HR"], 10))
    /\ \A i \in FlowCalls("interactive"), b \in FlowCalls("batch") :
        calls[i].file = calls[b].file /\ SameSample(df.rows[calls[b].row])
            => calls[i].x = calls[b].x

\* C1 witness: the form and a batch row have both called the stainless-steel
\* model (five features) on the same sample.
C1_Witness ==
    \E i \in FlowCalls("interactive"), b \in FlowCalls("batch") :
        /\ calls[i].file = ModelFile(SS) /\ calls[b].file = ModelFile(SS)
        /\ SameSample(df.rows[calls[b].row])
        /\ Len(calls[b].x) = 5

\* What the batch loop owes row k: the model's prediction for the row's own
\* vector when its Material is recognised, the missing marker otherwise.
RowOutcome(k) ==
    LET row == df.rows[k]
        g == Classify(Lower(row["Material"]))
    IN  IF g = NoText THEN NaN
        ELSE Predict(ModelFile(g), BatchFeatures(g, row))

Matched(k) == Classify(Lower(df.rows[k]["Material"])) # NoText

\* Row k's raw sample has no zero denominator.
FiniteRow(k) ==
    df.rows[k]["D50_um"] # 0 /\ df.rows[k]["Effective_Layer_Thickness_um"] # 0

\* C2: when the row loop has finished, predictions has one entry per input
\* row and entry k is the outcome of row k.
C2_OneEntryPerRow ==
    pc = "assign" =>
        /\ Len(predictions) = Len(df.rows)
        /\ \A k \in 1..Len(df.rows) : predictions[k] = RowOutcome(k)

\* C3: a batch that mixes recognised and unrecognised Material texts (all
\* columns present, all model files present, no zero denominator) completes,
\* every recognised row ends with its model prediction and every unrecognised
\* row with the missing marker.
C3_PartialFailure ==
    (/\ pc \in {"end", "crashed"}
     /\ HasRequiredCols(df_csv.columns)
     /\ files = AllFiles
     /\ \A k \in 1..Len(df.rows) : FiniteRow(k)
     /\ \E k \in 1..Len(df.rows) : Matched(k)
     /\ \E k \in 1..Len(df.rows) : ~Matched(k))
    => /\ pc = "end"
       /\ \A k \in 1..Len(df.rows) :
            df.rows[k]["Predicted_PBPD_%"] = RowOutcome(k)

\* C6: no vector holding inf or NaN is ever handed to model.predict, by the
\* form or by the batch loop.
C6_NoNonFinite ==
    \A k \in DOMAIN calls : AllFinite(calls[k].x)

\* C8: once a CSV lacking a required column is uploaded, the run has reported
\* the missing columns and ended; no derived column was computed, no row was
\* visited, no model was loaded or called by the batch section and no batch
\* result was rendered.
C8_FailFast ==
    (df_csv.columns # {} /\ \E col \in RequiredCols : col \notin df_csv.columns)
    => /\ pc = "end"
       /\ page[Len(page)].kind = "error"
       /\ page[Len(page)].text = "Missing required columns in CSV."
       /\ df = NoFrame
       /\ predictions = <<>>
       /\ row_i = 0
       /\ FlowLoads("batch") = {}
       /\ FlowCalls("batch") = {}
       /\ ~Reported("success", "Batch prediction complete.")
       /\ ~Reported("download_button", "Download Results as CSV")

\* C8 witness: a CSV with rows but without its Material column was uploaded.
C8_Witness ==
    /\ "Material" \notin df_csv.columns
    /\ "D50_um" \in df_csv.columns
    /\ Len(df_csv.rows) > 0
    /\ pc = "end"

\* C9: a missing model file is reported by name and stops only the sample or
\* row that needs it: the form renders the group-specific error and neither a
\* prediction nor a report; the batch still calls the model of every row
\* whose model file exists.
C9_MissingModel ==
    /\ (pc \notin {"sidebar", "properties", "check", "button"}
        /\ \E k \in FlowLoads("interactive") : loads[k].file \notin files)
       => /\ \E k \in DOMAIN page :
               /\ page[k].kind = "error"
               /\ page[k].text = NotFoundText
               /\ page[k].arg = Upper(material_group)
          /\ FlowCalls("interactive") = {}
          /\ ~Reported("success", "Predicted PBPD")
          /\ ~Reported("download_button", "Download PDF Report")
    /\ (/\ pc \in {"end", "crashed"}
        /\ HasRequiredCols(df_csv.columns)
        /\ \A k \in 1..Len(df.rows) : FiniteRow(k))
       => \A k \in 1..Len(df.rows) :
            (Matched(k) /\ ModelFile(Classify(Lower(df.rows[k]["Material"]))) \in files)
            => \E c \in FlowCalls("batch") : calls[c].row = k

\* C4: with the choice Auto, a bulk density below 3.5 resolves to Aluminum,
\* one from 3.5 up to but excluding 6 to Titanium, one of 6 or more to
\* StainlessSteel, and to nothing else; 3.5 itself is Titanium and 6.0 itself
\* StainlessSteel.  (bulk_density is in tenths.)
C4_AutoPartition ==
    (pc # "sidebar" /\ material_choice = AUTO)
    => /\ material_group \in Groups
       /\ material_group = AL <=> bulk_density < 35
       /\ material_group = TI <=> (35 <= bulk_density /\ bulk_density < 60)
       /\ material_group = SS <=> bulk_density >= 60
       /\ bulk_density = 35 => material_group = TI
       /\ bulk_density = 60 => material_group = SS

\* C4 witness: Auto at the boundary 3.5 has resolved to Titanium.
C4_Witness ==
    /\ pc # "sidebar"
    /\ material_choice = AUTO
    /\ bulk_density = 35
    /\ material_group = TI

Count(q, e) == Cardinality({k \in DOMAIN q : q[k] = e})

Once(cond, msg) == Count(warnings, msg) = IF cond THEN 1 ELSE 0

\* The five conditions of section 4.2 on the values the run computed.
SpanFlagged == span.n * 10 < 8 * span.d \/ span.n > 2 * span.d
R23Flagged == r23.n * 100 < 5 * r23.d \/ r23.n * 10 > 12 * r23.d
R34Flagged == r34.n * 100 < 5 * r34.d \/ r34.n * 10 > 15 * r34.d
BridgingFlagged == d23 > layer_thickness
FlowFlagged == hr > 14

FiveChecks ==
    /\ Once(SpanFlagged, SpanWarning)
    /\ Once(R23Flagged, R23Warning)
    /\ Once(R34Flagged, R34Warning)
    /\ Once(BridgingFlagged, BridgingWarning)
    /\ Once(FlowFlagged, FlowWarning)
    /\ Len(warnings) = Cardinality({c \in {<<1, SpanFlagged>>, <<2, R23Flagged>>,
                                          <<3, R34Flagged>>, <<4, BridgingFlagged>>,
                                          <<5, FlowFlagged>>} : c[2]})

\* C7: after the input check of either script, the warning list holds exactly
\* one warning for each of the five conditions that holds (Span, R23, R34,
\* bridging, flowability) and none for the others.
C7_Warnings ==
    pc \in {"button", "upload", "end", "stopped"} => FiveChecks

\* C7, src/app.py alone: the same statement for the script that has all five
\* checks.
C7_WarningsApp ==
    (script = "app" /\ pc \in {"button", "upload", "end", "stopped"}) => FiveChecks

\* C10: in the form, the resolved group is always one of ti, ss, al; an
\* explicit choice is its own lower-cased name whatever the bulk density; the
\* 'Material model not found.' branch is never taken; and a vector is only
\* built for a model that was loaded first, a failed load ending the handler
\* before the routing check.
C10_ClosedRouting ==
    pc # "sidebar"
    => /\ material_group \in Groups
       /\ material_choice # AUTO => material_group = Lower(material_choice)
       /\ pc # "stopped"
       /\ ~Reported("error", UnroutedText)
       /\ \A c \in FlowCalls("interactive") :
            /\ calls[c].file \in files
            /\ \E l \in FlowLoads("interactive") : loads[l].file = calls[c].file
       /\ (\E l \in FlowLoads("interactive") : loads[l].file \notin files)
            => FlowCalls("interactive") = {}

\* C10 witness: the explicit choice Ti at a bulk density that Auto would send
\* to Aluminum has been predicted with the titanium model.
C10_Witness ==
    /\ material_choice = <<"T", "i">>
    /\ bulk_density = 0
    /\ material_group = TI
    /\ \E c \in FlowCalls("interactive") : calls[c].file = ModelFile(TI)

\* C5: the batch loop lower-cases the Material text and takes the first match
\* of: contains "ti" -> ti; contains "ss" or "316" -> ss; contains "al" -> al;
\* else none.  A text with "ti" is ti even if it also holds "ss", "316" or
\* "al"; "Ti-6Al-4V" is ti and "SS316L" is ss; a recognised row loads the
\* model of its group and an unrecognised row records the missing marker.
C5_Priority ==
    (Len(df.rows) = 1 /\ pc \in {"assign", "end", "crashed"})
    => LET raw == df_csv.rows[1]["Material"]
           low == [k \in 1..Len(raw) |-> LowerChar(raw[k])]
           ti == Contains(low, TI)
           ss == Contains(low, SS) \/ Contains(low, T316)
           al == Contains(low, AL)
       IN  /\ mat = low
           /\ ti => model_used = TI
           /\ (~ti /\ ss) => model_used = SS
           /\ (~ti /\ ~ss /\ al) => model_used = AL
           /\ (~ti /\ ~ss /\ ~al) => (model_used = NoText /\ predictions = <<NaN>>)
           /\ raw = Ti6Al4V => model_used = TI
           /\ raw = SS316L => model_used = SS
           /\ model_used # NoText =>
                \E l \in FlowLoads("batch") :
                    loads[l].row = 1 /\ loads[l].file = ModelFile(model_used)

\* C5 witness: a text holding both "ti" and "al" was classified ti.
C5_Witness ==
    /\ Len(df.rows) = 1
    /\ pc = "assign"
    /\ Contains(mat, TI) /\ Contains(mat, AL)
    /\ model_used = TI

====
